---- MODULE Spec2Model ----
(***************************************************************************)
(* Post-clustering of tracklets (code/deep_sort/post_clustering.py).       *)
(*                                                                         *)
(* run(input_file, output_file, max_common_frames, n_clusters) is modelled *)
(* stage by stage; pc is the position inside run().  A detection row is a  *)
(* record [frame, track, bbox]: columns 0 and 1 of the array and a stand-in*)
(* for columns 2..9 (a number that identifies the row).  The appearance    *)
(* columns 10.. are not represented: the only place where their values     *)
(* decide anything is the nearest-centroid order inside cop_kmeans, which  *)
(* is modelled as a free choice among the feasible clusters.               *)
(***************************************************************************)
EXTENDS Integers, Sequences, FiniteSets, TLC

VARIABLES
    loaded,             \* the array read by np.load(input_file), never changed
    n_clusters_arg,     \* the n_clusters argument as passed to run()
    max_common_frames,  \* the max_common_frames argument
    input,              \* local `input` (reassigned at lines 53 and 66)
    ids,                \* local `ids`
    data,               \* local `data`: one descriptor [first, track] per track
    common_frames,      \* local `common_frames` matrix, indexed <<i, j>>
    must_link,          \* local `must_link`
    cannot_link,        \* local `cannot_link`: set of pairs <<i, j>>
    centers_init,       \* local `centers_init`
    n_clusters,         \* local `n_clusters` (clamped at line 127)
    km_prev,            \* cop_kmeans: assignment of the previous pass (<<>> before the first)
    km_iter,            \* cop_kmeans: number of completed passes
    km_status,          \* cop_kmeans: "idle", "running", "converged", "capped", "infeasible"
    clusters,           \* local `clusters` returned by cop_kmeans
    output,             \* the array saved by np.save(output_file, ...), or NotSaved
    pc                  \* position inside run()

vars == << loaded, n_clusters_arg, max_common_frames, input, ids, data,
           common_frames, must_link, cannot_link, centers_init, n_clusters,
           km_prev, km_iter, km_status, clusters, output, pc >>

-----------------------------------------------------------------------------
(* Bounds of the model and program constants *)

min_len_tracklet == 10

MaxClusters == 3
MaxCommon == 3
MaxIter == 2

TrackIds == {1, 2, 3}
Frames == 1..20

\* The lifespans a track of the input may have: absent, one row short of the
\* minimum length, and several placements of a track of 10 rows (one of them
\* with a gap).
Lifespans ==
    { {}, 1..9, 1..10, 8..17, 10..19, (1..7) \cup (18..20) }

\* The values of max_common_frames: the default and the two largest allowed
Thresholds == {0, MaxCommon - 1, MaxCommon}

\* The tracks that may have two detection rows on one frame (0: none has)
DupChoices == {0, 1}

\* None as returned in place of an assignment: a list no assignment equals
NoClusters == << -1 >>
\* the output file before np.save; a saved array always has rows
NotSaved == <<>>

-----------------------------------------------------------------------------
(* Helpers *)

Min(S) == CHOOSE x \in S : \A y \in S : x <= y

Range(s) == { s[i] : i \in 1..Len(s) }

RECURSIVE SortedSeq(_)
SortedSeq(S) ==
    IF S = {} THEN <<>> ELSE << Min(S) >> \o SortedSeq(S \ {Min(S)})

\* np.unique(a): the distinct values, ascending
Unique(s) == SortedSeq(Range(s))

\* list.index(x) (0-based in the code, 1-based here): first position of x
Index(s, x) == Min({ i \in 1..Len(s) : s[i] = x })

Column(rows, f) == [ i \in 1..Len(rows) |-> rows[i][f] ]

RowsOfTrack(rows, t) == SelectSeq(rows, LAMBDA r : r.track = t)

RowsOfFrame(rows, f) == SelectSeq(rows, LAMBDA r : r.frame = f)

\* The rows of an input file: frame by frame, track by track; track `dup`
\* (when not 0) has a second detection row on its first frame.
RECURSIVE RowsFrom(_, _, _, _)
RowsFrom(life, dup, fs, ts) ==
    IF fs = <<>> THEN <<>>
    ELSE IF ts = <<>> THEN RowsFrom(life, dup, Tail(fs), SortedSeq(TrackIds))
    ELSE LET f == Head(fs)
             t == Head(ts)
             r == [frame |-> f, track |-> t, bbox |-> 0]
             here == IF f \notin life[t] THEN <<>>
                     ELSE IF dup = t /\ f = Min(life[t]) THEN << r, r >>
                     ELSE << r >>
         IN  here \o RowsFrom(life, dup, fs, Tail(ts))

InputFile(life, dup) ==
    LET rows == RowsFrom(life, dup, SortedSeq(Frames), SortedSeq(TrackIds))
    IN  [ i \in 1..Len(rows) |-> [rows[i] EXCEPT !.bbox = i] ]

-----------------------------------------------------------------------------
(* run(), lines 19-53: load, count the rows of each frame, drop frames *)

\* n_ids_by_frames[f] = len(ids_by_frames[f]): one entry per ROW of frame f
RowsOnFrame(rows, f) == Len(RowsOfFrame(rows, f))

\* FramesToDelete with the comparison nid >= n_clusters
FramesToDeleteAtLeast(rows, n) ==
    { f \in Range(Column(rows, "frame")) : RowsOnFrame(rows, f) >= n }

\* ff: the frames with nid > n_clusters
FramesToDelete(rows, n) ==
    { f \in Range(Column(rows, "frame")) : RowsOnFrame(rows, f) > n }

DropFrames(rows, n) ==
    SelectSeq(rows, LAMBDA r : r.frame \notin FramesToDelete(rows, n))

\* the state at the entry of run() for an input file made of the given lifespans
InitWith(lifespans, dups) ==
    /\ \E life \in [TrackIds -> lifespans], dup \in dups :
          loaded = InputFile(life, dup)
    /\ n_clusters_arg \in 1..MaxClusters
    /\ max_common_frames \in Thresholds
    /\ input = loaded
    /\ ids = <<>>
    /\ data = <<>>
    /\ common_frames = <<>>
    /\ must_link = {}
    /\ cannot_link = {}
    /\ centers_init = <<>>
    /\ n_clusters = n_clusters_arg
    /\ km_prev = <<>>
    /\ km_iter = 0
    /\ km_status = "idle"
    /\ clusters = <<>>
    /\ output = NotSaved
    /\ pc = "filter_frames"

Init == InitWith(Lifespans, DupChoices)

\* the input files whose tracks all have 10 rows, none of them starting on
\* frame 1 with its whole life in the first ten frames, and no doubled row
InitPlain == InitWith(Lifespans \ {1..9, 1..10}, {0})

\* line 47: max() of an empty dict raises when the file has no rows
FilterFramesEmpty ==
    /\ pc = "filter_frames"
    /\ input = <<>>
    /\ pc' = "failed"
    /\ UNCHANGED << loaded, n_clusters_arg, max_common_frames, input, ids, data,
                    common_frames, must_link, cannot_link, centers_init,
                    n_clusters, km_prev, km_iter, km_status,
                    clusters, output >>

FilterFrames ==
    /\ pc = "filter_frames"
    /\ input # <<>>
    /\ ids' = Unique(Column(input, "track"))
    /\ input' = DropFrames(input, n_clusters)
    /\ pc' = "filter_tracks"
    /\ UNCHANGED << loaded, n_clusters_arg, max_common_frames, data,
                    common_frames, must_link, cannot_link, centers_init,
                    n_clusters, km_prev, km_iter, km_status,
                    clusters, output >>

-----------------------------------------------------------------------------
(* run(), lines 54-66: drop the tracks with fewer than min_len_tracklet rows *)

\* TooShort with the threshold one row lower
TooShortOffByOne(rows, t) == Len(RowsOfTrack(rows, t)) < min_len_tracklet - 1

TooShort(rows, t) == Len(RowsOfTrack(rows, t)) < min_len_tracklet

\* to_remove
ToRemove(rows, idlist) == { t \in Range(idlist) : TooShort(rows, t) }

DropTracks(rows, idlist) ==
    SelectSeq(rows, LAMBDA r : r.track \notin ToRemove(rows, idlist))

\* line 53 leaves a 1-D empty array when every frame was deleted, and
\* input[:, 1] at line 59 then raises
FilterTracksEmpty ==
    /\ pc = "filter_tracks"
    /\ input = <<>>
    /\ pc' = "failed"
    /\ UNCHANGED << loaded, n_clusters_arg, max_common_frames, input, ids, data,
                    common_frames, must_link, cannot_link, centers_init,
                    n_clusters, km_prev, km_iter, km_status,
                    clusters, output >>

FilterTracks ==
    /\ pc = "filter_tracks"
    /\ input # <<>>
    /\ ids' = SelectSeq(ids, LAMBDA t : t \notin ToRemove(input, ids))
    /\ input' = DropTracks(input, ids)
    /\ pc' = "aggregate"
    /\ UNCHANGED << loaded, n_clusters_arg, max_common_frames, data,
                    common_frames, must_link, cannot_link, centers_init,
                    n_clusters, km_prev, km_iter, km_status,
                    clusters, output >>

-----------------------------------------------------------------------------
(* run(), lines 71-89: one descriptor per track, ordered by first frame *)

\* d[0], d[1] of the descriptor of track t
Descriptor(rows, t) ==
    [ first |-> Min(Range(Column(RowsOfTrack(rows, t), "frame"))), track |-> t ]

\* data[data[:, 0].argsort()]: argsort's default kind is not stable, so the
\* order among descriptors with equal first frame is any order
SortedByFirst(rows, idlist) ==
    { s \in [1..Len(idlist) -> { Descriptor(rows, t) : t \in Range(idlist) }] :
        /\ \A i, j \in 1..Len(idlist) : i < j => s[i].first <= s[j].first
        /\ \A i, j \in 1..Len(idlist) : i # j => s[i] # s[j] }

\* with no track left `data` is a 1-D empty array and data[:, 0] raises (line 88)
AggregateEmpty ==
    /\ pc = "aggregate"
    /\ ids = <<>>
    /\ pc' = "failed"
    /\ UNCHANGED << loaded, n_clusters_arg, max_common_frames, input, ids, data,
                    common_frames, must_link, cannot_link, centers_init,
                    n_clusters, km_prev, km_iter, km_status,
                    clusters, output >>

Aggregate ==
    /\ pc = "aggregate"
    /\ ids # <<>>
    /\ \E s \in SortedByFirst(input, ids) :
          /\ data' = s
          /\ ids' = Column(s, "track")
    /\ pc' = "common_frames"
    /\ UNCHANGED << loaded, n_clusters_arg, max_common_frames, input,
                    common_frames, must_link, cannot_link, centers_init,
                    n_clusters, km_prev, km_iter, km_status,
                    clusters, output >>

-----------------------------------------------------------------------------
(* run(), lines 93-111: co-occurrence matrix and cannot-link pairs *)

FramesOfTrack(rows, t) == Range(Column(RowsOfTrack(rows, t), "frame"))

\* line 98
NCommonFrames(rows, t, u) ==
    Cardinality(FramesOfTrack(rows, t) \cap FramesOfTrack(rows, u))

\* lines 93-99: zeros below the diagonal
CommonFramesMatrix(rows, idlist) ==
    [ p \in (1..Len(idlist)) \X (1..Len(idlist)) |->
        IF p[1] <= p[2] THEN NCommonFrames(rows, idlist[p[1]], idlist[p[2]])
        ELSE 0 ]

\* Exceeds with the comparison >=
ExceedsOrEqual(count, threshold) == count >= threshold

\* line 109
Exceeds(count, threshold) == count > threshold

CannotLink(m, n, threshold) ==
    { p \in (1..n) \X (1..n) : p[1] < p[2] /\ Exceeds(m[p], threshold) }

CommonFrames ==
    /\ pc = "common_frames"
    /\ common_frames' = CommonFramesMatrix(input, ids)
    /\ pc' = "constraints"
    /\ UNCHANGED << loaded, n_clusters_arg, max_common_frames, input, ids, data,
                    must_link, cannot_link, centers_init, n_clusters,
                    km_prev, km_iter, km_status, clusters, output >>

Constraints ==
    /\ pc = "constraints"
    /\ must_link' = {}
    /\ cannot_link' = CannotLink(common_frames, Len(ids), max_common_frames)
    /\ pc' = "init_centers"
    /\ UNCHANGED << loaded, n_clusters_arg, max_common_frames, input, ids, data,
                    common_frames, centers_init, n_clusters, km_prev, km_iter, km_status, clusters, output >>

-----------------------------------------------------------------------------
(* run(), lines 115-123: seeds from the reference frame *)

\* ids_by_frames.keys() in insertion order: frames by first appearance in the rows
RECURSIVE FrameOrder(_)
FrameOrder(rows) ==
    IF rows = <<>> THEN <<>>
    ELSE LET f == Head(rows).frame
         IN  << f >> \o FrameOrder(SelectSeq(Tail(rows), LAMBDA r : r.frame # f))

\* max(n_ids_by_frames, key=...): the first key, in insertion order, whose
\* count is the maximum
RefFrame(rows) ==
    LET order == FrameOrder(rows)
        best  == Min({ i \in 1..Len(order) :
                        \A j \in 1..Len(order) :
                            RowsOnFrame(rows, order[j]) <= RowsOnFrame(rows, order[i]) })
    IN  order[best]

\* centers_ids_init = ids_by_frames[ref_frame]; centers_init = positions in data
CentersInit(rows, d) ==
    LET on_ref == Column(RowsOfFrame(rows, RefFrame(rows)), "track")
    IN  [ i \in 1..Len(on_ref) |-> Index(Column(d, "track"), on_ref[i]) ]

InitCenters ==
    /\ pc = "init_centers"
    /\ centers_init' = CentersInit(input, data)
    /\ pc' = "clamp"
    /\ UNCHANGED << loaded, n_clusters_arg, max_common_frames, input, ids, data,
                    common_frames, must_link, cannot_link, n_clusters,
                    km_prev, km_iter, km_status, clusters, output >>

-----------------------------------------------------------------------------
(* run(), lines 125-128: clamp n_clusters and call cop_kmeans *)

\* Clamp without lines 126-127
ClampNever(n, n_ids) == n

\* lines 126-127
Clamp(n, n_ids) == IF n_ids < n THEN n_ids ELSE n

CallKMeans ==
    /\ pc = "clamp"
    /\ ids' = Unique(Column(data, "track"))
    /\ n_clusters' = Clamp(n_clusters, Len(ids'))
    /\ km_prev' = <<>>
    /\ km_iter' = 0
    /\ km_status' = "running"
    /\ pc' = "kmeans"
    /\ UNCHANGED << loaded, n_clusters_arg, max_common_frames, input, data,
                    common_frames, must_link, cannot_link, centers_init,
                    clusters, output >>

-----------------------------------------------------------------------------
(* cop_kmeans(dataset, initialization, k, ml, cl, spherical): the constrained *)
(* spherical k-means.  In one pass the tracks are visited in the order of    *)
(* `data`; each takes the nearest centroid among the clusters that break no  *)
(* cannot-link constraint with a track already assigned in this pass.  Which *)
(* feasible cluster is nearest depends on the appearance vectors and on the  *)
(* centroids, and is a free choice here.                                     *)

\* the clusters track i may take, given the assignment of the tracks before it
FeasibleClusters(i, assigned, k, cl) ==
    { c \in 0..(k - 1) :
        \A j \in 1..Len(assigned) :
            (<< j, i >> \in cl \/ << i, j >> \in cl) => assigned[j] # c }

\* the assignments one pass over n tracks can end with; an assignment shorter
\* than n is a pass that stopped at a track with no feasible cluster
RECURSIVE PassOutcomes(_, _, _, _)
PassOutcomes(assigned, n, k, cl) ==
    IF Len(assigned) = n THEN { assigned }
    ELSE LET feasible == FeasibleClusters(Len(assigned) + 1, assigned, k, cl)
         IN  IF feasible = {} THEN { assigned }
             ELSE UNION { PassOutcomes(Append(assigned, c), n, k, cl) :
                            c \in feasible }

KMeansPasses == PassOutcomes(<<>>, Len(data), n_clusters, cannot_link)

\* Stable when the comparison with the previous pass is never made
StableNever(pass, prev) == FALSE

\* no track changed cluster between the previous pass and this one
Stable(pass, prev) == pass = prev

\* the iteration cap is reached by the pass just completed
CapReached(done) == done >= MaxIter

\* a track has no feasible cluster: the call fails, either by raising or by
\* returning no assignment
KMeansInfeasible ==
    /\ pc = "kmeans"
    /\ \E pass \in KMeansPasses : Len(pass) < Len(data)
    /\ km_status' = "infeasible"
    /\ km_prev' = <<>>
    /\ \/ /\ pc' = "failed"
          /\ UNCHANGED clusters
       \/ /\ pc' = "map"
          /\ clusters' = NoClusters
    /\ UNCHANGED << loaded, n_clusters_arg, max_common_frames, input, ids, data,
                    common_frames, must_link, cannot_link, centers_init,
                    n_clusters, km_iter, output >>

KMeansConverged ==
    /\ pc = "kmeans"
    /\ \E pass \in KMeansPasses :
          /\ Len(pass) = Len(data)
          /\ Stable(pass, km_prev)
          /\ clusters' = pass
    /\ km_iter' = km_iter + 1
    /\ km_status' = "converged"
    /\ km_prev' = <<>>
    /\ pc' = "map"
    /\ UNCHANGED << loaded, n_clusters_arg, max_common_frames, input, ids, data,
                    common_frames, must_link, cannot_link, centers_init,
                    n_clusters, output >>

KMeansCapped ==
    /\ pc = "kmeans"
    /\ \E pass \in KMeansPasses :
          /\ Len(pass) = Len(data)
          /\ ~Stable(pass, km_prev)
          /\ clusters' = pass
    /\ CapReached(km_iter + 1)
    /\ km_iter' = km_iter + 1
    /\ km_status' = "capped"
    /\ km_prev' = <<>>
    /\ pc' = "map"
    /\ UNCHANGED << loaded, n_clusters_arg, max_common_frames, input, ids, data,
                    common_frames, must_link, cannot_link, centers_init,
                    n_clusters, output >>

KMeansNextPass ==
    /\ pc = "kmeans"
    /\ \E pass \in KMeansPasses :
          /\ Len(pass) = Len(data)
          /\ ~Stable(pass, km_prev)
          /\ km_prev' = pass
    /\ ~CapReached(km_iter + 1)
    /\ km_iter' = km_iter + 1
    /\ UNCHANGED << loaded, n_clusters_arg, max_common_frames, input, ids, data,
                    common_frames, must_link, cannot_link, centers_init,
                    n_clusters, km_status, clusters, output, pc >>

-----------------------------------------------------------------------------
(* run(), lines 137-143: map the clusters back to the rows and save *)

\* ClusterOfRow when column 1 is left as it was
KeepTrackId(out_clusters, idlist, x) == x

\* line 140: out_clusters[ids.index(int(x))]
ClusterOfRow(out_clusters, idlist, x) == out_clusters[Index(idlist, x)]

\* lines 139-140: the first ten columns, column 1 overwritten
MapRows(rows, out_clusters, idlist) ==
    [ i \in 1..Len(rows) |->
        [ frame |-> rows[i].frame,
          track |-> ClusterOfRow(out_clusters, idlist, rows[i].track),
          bbox  |-> rows[i].bbox ] ]

\* OutClusters when a missing assignment is replaced by "all in cluster 0"
OutClustersBestEffort(returned, n) ==
    IF returned = NoClusters THEN [ i \in 1..n |-> 0 ] ELSE returned

\* line 137: out_clusters = clusters
OutClusters(returned, n) == returned

\* subscripting None raises at line 140, before np.save
Subscriptable(out_clusters) == out_clusters # NoClusters

MapResultFails ==
    /\ pc = "map"
    /\ ~Subscriptable(OutClusters(clusters, Len(ids)))
    /\ pc' = "failed"
    /\ UNCHANGED << loaded, n_clusters_arg, max_common_frames, input, ids, data,
                    common_frames, must_link, cannot_link, centers_init,
                    n_clusters, km_prev, km_iter, km_status, clusters, output >>

MapResult ==
    /\ pc = "map"
    /\ Subscriptable(OutClusters(clusters, Len(ids)))
    /\ output' = MapRows(input, OutClusters(clusters, Len(ids)), ids)
    /\ pc' = "done"
    /\ UNCHANGED << loaded, n_clusters_arg, max_common_frames, input, ids, data,
                    common_frames, must_link, cannot_link, centers_init,
                    n_clusters, km_prev, km_iter, km_status, clusters >>

-----------------------------------------------------------------------------

Next ==
    \/ FilterFramesEmpty
    \/ FilterFrames
    \/ FilterTracksEmpty
    \/ FilterTracks
    \/ AggregateEmpty
    \/ Aggregate
    \/ CommonFrames
    \/ Constraints
    \/ InitCenters
    \/ CallKMeans
    \/ KMeansInfeasible
    \/ KMeansConverged
    \/ KMeansCapped
    \/ KMeansNextPass
    \/ MapResultFails
    \/ MapResult

Spec == Init /\ [][Next]_vars

\* run() is one sequential call: every enabled step is eventually taken
FairSpec == InitPlain /\ [][Next]_vars /\ WF_vars(Next)

-----------------------------------------------------------------------------
(* Properties *)

\* quantities recomputed from the loaded file and the arguments alone
RowCount(f) == Cardinality({ i \in DOMAIN loaded : loaded[i].frame = f })

DistinctTracksOn(f) ==
    Cardinality({ loaded[i].track : i \in { k \in DOMAIN loaded : loaded[k].frame = f } })

FrameKept(f) == RowCount(f) <= n_clusters_arg

RowsAfterFrameDrop(t) ==
    Cardinality({ i \in DOMAIN loaded :
                    loaded[i].track = t /\ FrameKept(loaded[i].frame) })

LongEnough(t) == RowsAfterFrameDrop(t) >= min_len_tracklet

SurvivingTracks == { input[i].track : i \in DOMAIN input }

\* frames of the surviving rows on which both tracks have a row
SharedFrames(t, u) ==
    { f \in Frames :
        /\ \E i \in DOMAIN input : input[i].track = t /\ input[i].frame = f
        /\ \E i \in DOMAIN input : input[i].track = u /\ input[i].frame = f }

\* frames of the loaded file on which both tracks have a row
SharedLoadedFrames(t, u) ==
    { f \in Frames :
        /\ \E i \in DOMAIN loaded : loaded[i].track = t /\ loaded[i].frame = f
        /\ \E i \in DOMAIN loaded : loaded[i].track = u /\ loaded[i].frame = f }

\* position of a track in the first-frame-ordered descriptor list
PositionOf(t) == CHOOSE i \in DOMAIN data : data[i].track = t

KMeansCalled == km_status # "idle"

ConstraintsDerived ==
    pc \in {"init_centers", "clamp", "kmeans", "map", "done"} \/ KMeansCalled

\* C1: in every saved output, the rows of the two tracks of a cannot-link
\* pair carry different cluster ids.
C1_CannotLinkPairsApartInOutput ==
    pc = "done" =>
        \A r, s \in DOMAIN output :
            << PositionOf(input[r].track), PositionOf(input[s].track) >> \in cannot_link
                => output[r].track # output[s].track

\* C2: the saved output has one row per surviving detection, in order, with
\* frame and bbox unchanged and the track column holding the cluster that
\* k-means gave to the descriptor of the row's own track.
C2_OutputRowCarriesOwnCluster ==
    pc = "done" =>
        /\ Len(output) = Len(input)
        /\ \A r \in DOMAIN output :
              /\ output[r].frame = input[r].frame
              /\ output[r].bbox = input[r].bbox
              /\ output[r].track = clusters[PositionOf(input[r].track)]

\* C3: with max_common_frames = 0, two surviving tracks that share a frame of
\* the input file are a cannot-link pair and get different cluster ids in the
\* output.
C3_SharedFrameForcesApart ==
    (pc = "done" /\ max_common_frames = 0) =>
        \A r, s \in DOMAIN output :
            ( /\ input[r].track # input[s].track
              /\ SharedLoadedFrames(input[r].track, input[s].track) # {} )
            => /\ \/ << PositionOf(input[r].track), PositionOf(input[s].track) >> \in cannot_link
                  \/ << PositionOf(input[s].track), PositionOf(input[r].track) >> \in cannot_link
               /\ output[r].track # output[s].track

\* C4: the cannot-link set is exactly the pairs of positions i < j whose
\* tracks share more than max_common_frames frames, and must-link is empty.
C4_CannotLinkIffAboveThreshold ==
    ConstraintsDerived =>
        /\ must_link = {}
        /\ cannot_link =
              { p \in (DOMAIN data) \X (DOMAIN data) :
                  /\ p[1] < p[2]
                  /\ Cardinality(SharedFrames(data[p[1]].track, data[p[2]].track))
                        > max_common_frames }

\* a pair with 3 common frames is cannot-link under threshold 2 while a pair
\* with fewer common frames is not
C4_Witness ==
    /\ ConstraintsDerived
    /\ max_common_frames = 2
    /\ \E p \in cannot_link :
          Cardinality(SharedFrames(data[p[1]].track, data[p[2]].track)) = 3
    /\ \E i, j \in DOMAIN data :
          /\ i < j
          /\ SharedFrames(data[i].track, data[j].track) # {}
          /\ << i, j >> \notin cannot_link

\* C5: every cluster id of the saved output is in 0 .. k-1, k being the
\* cluster count passed to k-means.
C5_ClusterIdsInRange ==
    pc = "done" =>
        \A r \in DOMAIN output : output[r].track \in 0..(n_clusters - 1)

\* an output written after the count was clamped, using the last cluster
C5_Witness ==
    /\ pc = "done"
    /\ n_clusters < n_clusters_arg
    /\ \E r \in DOMAIN output : output[r].track = n_clusters - 1
    /\ \E r \in DOMAIN output : input[r].track > n_clusters - 1

\* C6: the cluster count passed to k-means is the smaller of the requested
\* count and the number of surviving tracks, and the run stops before k-means
\* only when no track survived.
C6_EffectiveClusterCount ==
    /\ KMeansCalled =>
          n_clusters = IF Cardinality(SurvivingTracks) <= n_clusters_arg
                       THEN Cardinality(SurvivingTracks)
                       ELSE n_clusters_arg
    /\ (pc = "failed" /\ ~KMeansCalled) => SurvivingTracks = {}

\* a run that clamped the count and went on to save its output
C6_Witness ==
    /\ pc = "done"
    /\ Cardinality(SurvivingTracks) < n_clusters_arg
    /\ n_clusters = Cardinality(SurvivingTracks)

\* C7: once the tracks are filtered, the descriptors, the constraints, the
\* surviving rows and the output rows concern only tracks with at least
\* min_len_tracklet rows after frame dropping, and every row of such a track
\* on a kept frame survives.
C7_NoShortTrackSurvives ==
    pc \notin {"filter_frames", "filter_tracks"} =>
        LET kept == { f \in Frames : FrameKept(f) }
            long == { t \in TrackIds :
                        Cardinality({ i \in DOMAIN loaded :
                            loaded[i].track = t /\ loaded[i].frame \in kept })
                        >= min_len_tracklet }
            left == Range(input)
        IN  /\ \A i \in DOMAIN data : data[i].track \in long
            /\ SurvivingTracks \subseteq long
            /\ \A i \in DOMAIN loaded :
                  (loaded[i].track \in long /\ loaded[i].frame \in kept)
                      => loaded[i] \in left
            /\ cannot_link \subseteq (DOMAIN data) \X (DOMAIN data)
            /\ \A r \in DOMAIN output :
                  \E i \in DOMAIN loaded :
                      loaded[i].bbox = output[r].bbox /\ loaded[i].track \in long

\* an output was saved although one track of 10 rows fell below the minimum
\* through frame dropping and another had 9 rows from the start
C7_Witness ==
    /\ pc = "done"
    /\ \E i \in DOMAIN loaded :
          /\ Cardinality({ k \in DOMAIN loaded : loaded[k].track = loaded[i].track })
                >= min_len_tracklet
          /\ ~LongEnough(loaded[i].track)
    /\ \E i \in DOMAIN loaded :
          Cardinality({ k \in DOMAIN loaded : loaded[k].track = loaded[i].track })
                = min_len_tracklet - 1

\* C8 as stated: after the frame filter the rows left are those of the frames
\* with at most n_clusters distinct tracks.
C8_FrameDroppedIffDistinctTracksExceed ==
    pc = "filter_tracks" =>
        input = SelectSeq(loaded, LAMBDA r : DistinctTracksOn(r.frame) <= n_clusters_arg)

\* C8 amended: after the frame filter the rows left are those of the frames
\* with at most n_clusters detection rows.
C8_FrameDroppedIffRowsExceed ==
    pc = "filter_tracks" =>
        input = SelectSeq(loaded, LAMBDA r : RowCount(r.frame) <= n_clusters_arg)

\* a frame with no more distinct tracks than n_clusters was dropped because
\* one track has two rows on it, while another frame was kept
C8_Witness ==
    /\ pc = "filter_tracks"
    /\ \E f \in Frames :
          /\ DistinctTracksOn(f) >= 1
          /\ DistinctTracksOn(f) <= n_clusters_arg
          /\ RowCount(f) > n_clusters_arg
          /\ \A i \in DOMAIN input : input[i].frame # f
    /\ input # <<>>

\* C9: when a track has no feasible cluster, nothing is saved, no assignment
\* reaches the caller, k-means is not entered again and the run can only fail.
C9_InfeasibleIsHardFailure ==
    km_status = "infeasible" =>
        /\ output = NotSaved
        /\ clusters \in {<<>>, NoClusters}
        /\ pc \in {"map", "failed"}
        /\ ~ENABLED MapResult

\* the run failed after k-means returned no assignment
C9_Witness ==
    /\ km_status = "infeasible"
    /\ pc = "failed"
    /\ clusters = NoClusters
    /\ Len(data) > n_clusters

k_means_vars == << km_prev, km_iter, km_status, clusters, pc >>

TracksOnFrame(f) == { input[i].track : i \in { k \in DOMAIN input : input[k].frame = f } }

\* C11: the seeds passed to k-means are valid positions in the descriptor
\* list, one per track of a frame that has the most tracks among the
\* surviving rows, pairwise distinct, and no more than the cluster count
\* passed to k-means.
C11_SeedsValidDistinctWithinK ==
    KMeansCalled =>
        /\ \A i \in DOMAIN centers_init : centers_init[i] \in DOMAIN data
        /\ \E f \in Frames :
              /\ \A g \in Frames :
                    Cardinality(TracksOnFrame(g)) <= Cardinality(TracksOnFrame(f))
              /\ { data[centers_init[i]].track : i \in DOMAIN centers_init }
                    = TracksOnFrame(f)
              /\ Len(centers_init) = Cardinality(TracksOnFrame(f))
        /\ \A i, j \in DOMAIN centers_init :
              i # j => centers_init[i] # centers_init[j]
        /\ Len(centers_init) <= n_clusters

====
